---------------------------- MODULE Spec2Model ----------------------------
(***************************************************************************)
(* A model of the Go package "period" (studiofrenetic/period).             *)
(*                                                                         *)
(* The repository holds two builds of the package: src/period.go and       *)
(* src/unnamed/part_001.  The variable `file` says which one is built; the *)
(* definitions that differ between the two read it.                        *)
(*                                                                         *)
(* An instant (time.Time) is modelled by an integer count of ticks since   *)
(* the Unix epoch, a duration (time.Duration) by an integer count of       *)
(* ticks.  The period arithmetic only compares, adds and subtracts         *)
(* instants, so the length of a tick does not matter there; the calendar   *)
(* constructors produce midnights only, and there one tick is one day.     *)
(* All modelled instants lie where Time.UnixNano and Time.Sub are exact.   *)
(***************************************************************************)
EXTENDS Integers, Sequences, FiniteSets, TLC

VARIABLES
    file,       \* the source file that is built: "period.go" or "part_001"
    StartWeek,  \* var StartWeek time.Weekday (0 = Sunday .. 6 = Saturday)
    p,          \* the receiver Period
    q,          \* the Period given as argument to the binary methods
    periods,    \* the variadic argument of Merge
    op,         \* the last function or method that returned
    pre,        \* the receiver as it was when that call was made
    ret,        \* what that call returned (with the arguments it was given)
    cal         \* the frame of a running CreateFromWeek call

vars == <<file, StartWeek, p, q, periods, op, pre, ret, cal>>

(***************************************************************************)
(* Bounds of the model.                                                    *)
(***************************************************************************)
MaxT == 3         \* receiver and argument endpoints are drawn from 0..MaxT
MaxMergeT == 2    \* endpoints of the periods given to Merge: 0..MaxMergeT
MaxPeriods == 2   \* at most this many periods are given to one Merge call
FirstYear == 2014 \* the first year given to a calendar constructor
NumYears == 2     \* how many consecutive years are given

Files == {"period.go", "part_001"}

Instants == 0..MaxT

Durations == (0 - MaxT)..MaxT

Period(start, end) == [Start |-> start, End |-> end]

Periods == {Period(s, e) : s \in Instants, e \in Instants}

InRange(x) == x.Start \in Instants /\ x.End \in Instants

\* The zero time.Time, January 1 of year 1, in days since the Unix epoch.
ZeroTime == -719162

\* The zero Period: `var newPeriod Period`, or the named result `p` never assigned.
ZeroPeriod == Period(ZeroTime, ZeroTime)

(***************************************************************************)
(* Endpoint comparison.                                                    *)
(***************************************************************************)
compareDate(date1, date2) ==
    IF date1 > date2 THEN 1
    ELSE IF date1 < date2 THEN -1
    ELSE 0

\* in_array(val, array): whether val is in the slice, and its first index
\* (0-based), or -1.
in_array(val, array) ==
    IF \E i \in DOMAIN array : array[i] = val
    THEN [found |-> TRUE,
          pos |-> (CHOOSE i \in DOMAIN array :
                      /\ array[i] = val
                      /\ \A j \in DOMAIN array : array[j] = val => i <= j) - 1]
    ELSE [found |-> FALSE, pos |-> -1]

GetDurationInterval(x) == x.End - x.Start

(***************************************************************************)
(* Containment and adjacency predicates.                                   *)
(***************************************************************************)
\* Contains with the end included.
Contains_Closed(x, index) ==
    (-1 < compareDate(index, x.Start)) /\ (1 > compareDate(index, x.End))

Contains(x, index) ==
    (-1 < compareDate(index, x.Start)) /\ (-1 = compareDate(index, x.End))

\* Abuts looking at one side only.
Abuts_OneSide(x, period) ==
    IF x.Start = period.End
    THEN [found |-> TRUE, pos |-> 0]
    ELSE [found |-> FALSE, pos |-> -1]

Abuts(x, period) ==
    IF file = "period.go"
    THEN in_array(0, <<compareDate(x.Start, period.End),
                       compareDate(x.End, period.Start)>>)
    ELSE IF x.Start = period.End \/ x.End = period.Start
         THEN [found |-> TRUE,
               pos |-> IF compareDate(x.Start, period.End) = 0 THEN 0
                       ELSE IF compareDate(x.End, period.Start) = 0 THEN 1
                       ELSE -1]
         ELSE [found |-> FALSE, pos |-> -1]

Overlaps(x, period) ==
    IF Abuts(x, period).found
    THEN FALSE
    ELSE (-1 = compareDate(x.Start, period.End)) /\
         (1 = compareDate(x.End, period.Start))

SameValueAs(x, period) ==
    0 = compareDate(x.Start, period.Start) /\ 0 = compareDate(x.End, period.End)

\* src/period.go only.
IsAfter(x, period) == -1 < compareDate(x.Start, period.Start)

\* IsBefore with a strict comparison.
IsBefore_Strict(x, period) == -1 = compareDate(x.End, period.End)

IsBefore(x, period) == 1 > compareDate(x.End, period.End)

\* src/unnamed/part_001 only.
After(x, period) == x.Start > period.End

Before(x, period) == x.End < period.Start

(***************************************************************************)
(* Derived periods.                                                        *)
(***************************************************************************)
\* createFromDatepoints without the swap.
createFromDatepoints_AsGiven(date1, date2) == Period(date1, date2)

createFromDatepoints(date1, date2) ==
    IF 1 = compareDate(date1, date2)
    THEN Period(date2, date1)
    ELSE Period(date1, date2)

\* Diff keeping the slices of zero length.
Diff_KeepEmpty(x, period) ==
    IF Overlaps(x, period) = FALSE
    THEN [res |-> <<>>, err |-> "ShouldOverlapsError"]
    ELSE [res |-> <<createFromDatepoints(x.Start, period.Start),
                    createFromDatepoints(x.End, period.End)>>,
          err |-> "nil"]

Diff(x, period) ==
    IF Overlaps(x, period) = FALSE
    THEN [res |-> <<>>, err |-> "ShouldOverlapsError"]
    ELSE LET period1 == createFromDatepoints(x.Start, period.Start)
             period2 == createFromDatepoints(x.End, period.End)
             res1 == IF compareDate(period1.Start, period1.End) # 0
                     THEN <<period1>> ELSE <<>>
             res2 == IF compareDate(period2.Start, period2.End) # 0
                     THEN Append(res1, period2) ELSE res1
         IN  [res |-> res2, err |-> "nil"]

\* Intersect taking the later of the two ends.
Intersect_LaterEnd(x, period) ==
    IF Abuts(x, period).found
    THEN [p |-> ZeroPeriod, err |-> "BothShouldNotAbuts"]
    ELSE [p |-> Period(IF 1 = compareDate(period.Start, x.Start)
                       THEN period.Start ELSE x.Start,
                       IF 1 = compareDate(period.End, x.End)
                       THEN period.End ELSE x.End),
          err |-> "nil"]

Intersect(x, period) ==
    IF Abuts(x, period).found
    THEN [p |-> ZeroPeriod, err |-> "BothShouldNotAbuts"]
    ELSE [p |-> Period(IF 1 = compareDate(period.Start, x.Start)
                       THEN period.Start ELSE x.Start,
                       IF -1 = compareDate(period.End, x.End)
                       THEN period.End ELSE x.End),
          err |-> "nil"]

\* Gap taking the first branch whatever the starts are.
Gap_FirstBranch(x, period) == Period(x.End, period.Start)

Gap(x, period) ==
    IF 1 = compareDate(period.Start, x.Start)
    THEN Period(x.End, period.Start)
    ELSE Period(period.End, x.Start)

\* One turn of Merge's loop with the second test in an else branch.
MergeOne_ElseIf(x, period) ==
    IF 1 = compareDate(x.Start, period.Start)
    THEN Period(period.Start, x.End)
    ELSE IF -1 = compareDate(x.End, period.End)
    THEN Period(x.Start, period.End)
    ELSE x

\* One turn of Merge's loop.
MergeOne(x, period) ==
    Period(IF 1 = compareDate(x.Start, period.Start) THEN period.Start ELSE x.Start,
           IF -1 = compareDate(x.End, period.End) THEN period.End ELSE x.End)

RECURSIVE Merge(_, _)
Merge(x, ps) ==
    IF ps = <<>> THEN x ELSE Merge(MergeOne(x, Head(ps)), Tail(ps))

(***************************************************************************)
(* Durations.                                                              *)
(***************************************************************************)
\* The two setters of src/period.go.
StartingOn(x, start) == Period(start, x.End)

EndingOn(x, end) == Period(x.Start, end)

WithDuration(x, duration) == Period(x.Start, x.Start + duration)

Add(x, duration) == Period(x.Start, x.End + duration)

Sub(x, duration) == Period(x.Start, x.End + (-1) * duration)

\* Next adding the duration to the start instead of to the end.
Period_Next_FromStart(x) ==
    LET duration == GetDurationInterval(x)
    IN  Period(x.End, x.Start + duration)

Period_Next(x) ==
    LET duration == GetDurationInterval(x)
    IN  Period(x.End, x.End + duration)

\* Previous taking the duration off the end instead of off the start.
Period_Previous_FromEnd(x) ==
    LET duration == GetDurationInterval(x)
    IN  Period(x.End + (-1) * duration, x.Start)

Period_Previous(x) ==
    LET duration == GetDurationInterval(x)
    IN  Period(x.Start + (-1) * duration, x.Start)

CompareDuration(x, period) == compareDate(x.End, period.End)

DurationGreaterThan(x, period) == 1 = CompareDuration(x, period)

DurationLessThan(x, period) == -1 = CompareDuration(x, period)

\* SameDurationAs comparing the ends in both files.
SameDurationAs_Ends(x, period) == 0 = CompareDuration(x, period)

SameDurationAs(x, period) ==
    IF file = "period.go"
    THEN 0 = CompareDuration(x, period)
    ELSE GetDurationInterval(x) = GetDurationInterval(period)

(***************************************************************************)
(* The calls.  Every action is one call that runs to its return: it        *)
(* records the function in `op`, the receiver it was called on in `pre`    *)
(* and what it returned in `ret`.                                          *)
(***************************************************************************)
Idle == [pc |-> "idle", year |-> 0, week |-> 0, Start |-> 0,
         isoYear |-> 0, isoWeek |-> 0]

\* A method that leaves its receiver alone returns `value`.
Query(name, value) ==
    /\ cal.pc = "idle"
    /\ op' = name
    /\ pre' = p
    /\ ret' = value
    /\ UNCHANGED <<file, StartWeek, p, q, periods, cal>>

\* A method that changes its receiver to `new`; `given` are its arguments.
Mutate(name, new, given) ==
    /\ cal.pc = "idle"
    /\ InRange(new)
    /\ op' = name
    /\ pre' = p
    /\ p' = new
    /\ ret' = given
    /\ UNCHANGED <<file, StartWeek, q, periods, cal>>

CallContains == \E index \in Instants :
    Query("Contains", [index |-> index, v |-> Contains(p, index)])

CallAbuts == Query("Abuts", Abuts(p, q))

CallOverlaps == Query("Overlaps", [v |-> Overlaps(p, q)])

CallSameValueAs == Query("SameValueAs", [v |-> SameValueAs(p, q)])

CallIsAfter == file = "period.go" /\ Query("IsAfter", [v |-> IsAfter(p, q)])

CallIsBefore == file = "period.go" /\ Query("IsBefore", [v |-> IsBefore(p, q)])

CallAfter == file = "part_001" /\ Query("After", [v |-> After(p, q)])

CallBefore == file = "part_001" /\ Query("Before", [v |-> Before(p, q)])

CallDiff == Query("Diff", Diff(p, q))

CallIntersect == Query("Intersect", Intersect(p, q))

CallGap == Query("Gap", [p |-> Gap(p, q)])

CallCompareDuration == Query("CompareDuration", [v |-> CompareDuration(p, q)])

CallDurationGreaterThan ==
    Query("DurationGreaterThan", [v |-> DurationGreaterThan(p, q)])

CallDurationLessThan ==
    Query("DurationLessThan", [v |-> DurationLessThan(p, q)])

CallSameDurationAs == Query("SameDurationAs", [v |-> SameDurationAs(p, q)])

CallWithDuration == \E duration \in Durations :
    Mutate("WithDuration", WithDuration(p, duration), [duration |-> duration])

CallAdd == \E duration \in Durations :
    Mutate("Add", Add(p, duration), [duration |-> duration])

CallSub == \E duration \in Durations :
    Mutate("Sub", Sub(p, duration), [duration |-> duration])

CallNext == Mutate("Next", Period_Next(p), [v |-> TRUE])

CallPrevious == Mutate("Previous", Period_Previous(p), [v |-> TRUE])

CallStartingOn == file = "period.go" /\ \E start \in Instants :
    Mutate("StartingOn", StartingOn(p, start), [index |-> start])

CallEndingOn == file = "period.go" /\ \E end \in Instants :
    Mutate("EndingOn", EndingOn(p, end), [index |-> end])

Init ==
    /\ file \in Files
    /\ StartWeek = 1
    /\ p \in Periods
    /\ q \in Periods
    /\ periods = <<>>
    /\ op = "init"
    /\ pre = p
    /\ ret = [v |-> FALSE]
    /\ cal = Idle

Next ==
    \/ CallContains
    \/ CallAbuts
    \/ CallOverlaps
    \/ CallSameValueAs
    \/ CallIsAfter
    \/ CallIsBefore
    \/ CallAfter
    \/ CallBefore
    \/ CallDiff
    \/ CallIntersect
    \/ CallGap
    \/ CallCompareDuration
    \/ CallDurationGreaterThan
    \/ CallDurationLessThan
    \/ CallSameDurationAs
    \/ CallWithDuration
    \/ CallAdd
    \/ CallSub
    \/ CallNext
    \/ CallPrevious
    \/ CallStartingOn
    \/ CallEndingOn

Spec == Init /\ [][Next]_vars

(***************************************************************************)
(* Properties of the period arithmetic, checked under Spec.                *)
(***************************************************************************)
Min(a, b) == IF a <= b THEN a ELSE b

Max(a, b) == IF a >= b THEN a ELSE b

Ordered(x) == x.Start <= x.End

\* The instant t lies in the half-open range [x.Start, x.End).
Within(t, x) == x.Start <= t /\ t < x.End

AbutMath(x, y) == x.Start = y.End \/ x.End = y.Start

\* C1: for ordered periods p and q that overlap, the periods Diff(p,q)
\* returns and the period Intersect(p,q) returns cover exactly the span
\* [min start, max end): every instant of the span lies in exactly one of
\* them, no instant outside the span lies in any, and Intersect returns no
\* error.
C1_DiffIntersectCoverSpan ==
    (op = "Diff" /\ Ordered(p) /\ Ordered(q) /\ Overlaps(p, q)) =>
        LET i == Intersect(p, q)
            pieces == ret.res \o <<i.p>>
            span == Period(Min(p.Start, q.Start), Max(p.End, q.End))
        IN  /\ ret.err = "nil"
            /\ i.err = "nil"
            /\ \A t \in Instants :
                   Cardinality({k \in DOMAIN pieces : Within(t, pieces[k])})
                       = IF Within(t, span) THEN 1 ELSE 0
            /\ \A k \in DOMAIN ret.res :
                   ret.res[k].End = i.p.Start \/ ret.res[k].Start = i.p.End

C1_Witness ==
    /\ op = "Diff"
    /\ Ordered(p) /\ Ordered(q) /\ Overlaps(p, q)
    /\ Len(ret.res) = 2
    /\ p.Start > q.Start
    /\ p.Start < p.End

\* C2: Diff(p,q) returns the must-overlap error and no periods exactly when
\* Overlaps(p,q) is false; otherwise it returns no error and, in this order,
\* the leading slice [min start, max start] and the trailing slice
\* [min end, max end], each present iff its start differs from its end, so
\* every returned period has start < end.
C2_DiffResult ==
    op = "Diff" =>
        LET leading == Period(Min(p.Start, q.Start), Max(p.Start, q.Start))
            trailing == Period(Min(p.End, q.End), Max(p.End, q.End))
            expected == (IF leading.Start # leading.End THEN <<leading>> ELSE <<>>)
                        \o (IF trailing.Start # trailing.End THEN <<trailing>> ELSE <<>>)
        IN  IF Overlaps(p, q)
            THEN /\ ret.err = "nil"
                 /\ ret.res = expected
                 /\ Len(ret.res) <= 2
                 /\ \A k \in DOMAIN ret.res : ret.res[k].Start < ret.res[k].End
            ELSE /\ ret.err = "ShouldOverlapsError"
                 /\ ret.res = <<>>

C2_Witness ==
    /\ op = "Diff"
    /\ ret.err = "nil"
    /\ Len(ret.res) = 1
    /\ p.End = q.End

\* The part of C3 that holds of every Intersect call: the abuts error and a
\* zero period exactly when the periods abut, else no error and
\* [max start, min end].
IntersectResult ==
    IF AbutMath(p, q)
    THEN ret.err = "BothShouldNotAbuts" /\ ret.p = ZeroPeriod
    ELSE ret.err = "nil" /\
         ret.p = Period(Max(p.Start, q.Start), Min(p.End, q.End))

\* C3 as claimed: Intersect(p,q) returns the abuts error exactly when p and
\* q abut, else [max start, min end]; for ordered p and q the result has
\* start < end when they overlap and start > end when they neither overlap
\* nor abut.
C3_AsClaimed ==
    op = "Intersect" =>
        /\ IntersectResult
        /\ (Ordered(p) /\ Ordered(q)) =>
               /\ Overlaps(p, q) => ret.p.Start < ret.p.End
               /\ (~Overlaps(p, q) /\ ~AbutMath(p, q)) => ret.p.Start > ret.p.End

\* C3 (amended): as claimed, except that for ordered p and q that overlap
\* the result has start <= end, with start < end when neither p nor q is of
\* zero length (a zero-length period strictly inside the other overlaps it,
\* and the intersection is that zero-length period).
C3_Intersect ==
    op = "Intersect" =>
        /\ IntersectResult
        /\ (Ordered(p) /\ Ordered(q)) =>
               /\ Overlaps(p, q) => ret.p.Start <= ret.p.End
               /\ (Overlaps(p, q) /\ p.Start # p.End /\ q.Start # q.End)
                      => ret.p.Start < ret.p.End
               /\ (~Overlaps(p, q) /\ ~AbutMath(p, q)) => ret.p.Start > ret.p.End

C3_Witness ==
    /\ op = "Intersect"
    /\ Ordered(p) /\ Ordered(q) /\ Overlaps(p, q)
    /\ ret.err = "nil"
    /\ ret.p.Start = ret.p.End

\* C4: for all periods, also zero-length and inverted ones, Overlaps(p,q)
\* iff p and q do not abut and p.start < q.end and p.end > q.start; Abuts
\* is true iff p.start = q.end or p.end = q.start, with side 0 when
\* p.start = q.end, else 1 when p.end = q.start, and -1 when they do not
\* abut; and Abuts true implies Overlaps false.
C4_OverlapsAbuts ==
    /\ op = "Overlaps" =>
           ret.v = (~AbutMath(p, q) /\ p.Start < q.End /\ p.End > q.Start)
    /\ op = "Abuts" =>
           /\ ret.found = AbutMath(p, q)
           /\ ret.pos = (IF p.Start = q.End THEN 0
                         ELSE IF p.End = q.Start THEN 1 ELSE -1)
           /\ ret.found => ~Overlaps(p, q)

C4_Witness ==
    /\ op = "Abuts"
    /\ ret.found
    /\ ret.pos = 1
    /\ ~Ordered(p)

\* C6: Next sets start to the old end and end to old end + old duration,
\* Previous sets end to the old start and start to old start - old
\* duration, and a Next followed by a Previous, or a Previous followed by a
\* Next, restores the original start and end.
C6_NextPrevious ==
    /\ [](/\ op = "Next" =>
                /\ p.Start = pre.End
                /\ p.End = pre.End + (pre.End - pre.Start)
                /\ Period_Previous(p) = pre
          /\ op = "Previous" =>
                /\ p.End = pre.Start
                /\ p.Start = pre.Start - (pre.End - pre.Start)
                /\ Period_Next(p) = pre)
    /\ [][/\ (op = "Next" /\ op' = "Previous") => p' = pre
          /\ (op = "Previous" /\ op' = "Next") => p' = pre]_vars

C6_Witness ==
    /\ op = "Previous"
    /\ pre.Start # pre.End
    /\ Period_Next(p) = pre
    /\ InRange(Period_Next(p))

C11_Gap ==
    op = "Gap" =>
        /\ ret.p = (IF q.Start > p.Start
                    THEN Period(p.End, q.Start)
                    ELSE Period(q.End, p.Start))
        /\ (Ordered(p) /\ Ordered(q) /\ ~Overlaps(p, q) /\ ~AbutMath(p, q)) =>
               /\ ret.p = Period(Min(p.End, q.End), Max(p.Start, q.Start))
               /\ ret.p.Start < ret.p.End
               /\ Abuts(ret.p, p).found /\ Abuts(ret.p, q).found
               /\ AbutMath(ret.p, p) /\ AbutMath(ret.p, q)
               /\ ~Overlaps(ret.p, p) /\ ~Overlaps(ret.p, q)
               /\ \A t \in Instants :
                      Within(t, ret.p) => ~Within(t, p) /\ ~Within(t, q)
               /\ Gap(q, p) = ret.p

C11_Witness ==
    /\ op = "Gap"
    /\ p.Start < p.End /\ q.Start < q.End
    /\ q.End < p.Start
    /\ ret.p = Period(q.End, p.Start)

\* C12: Contains(p, t) is true iff t >= p.start and t < p.end: p.start is
\* contained whenever p.start < p.end, p.end never is, and a zero-length or
\* inverted period contains no instant.
C12_Contains ==
    op = "Contains" =>
        /\ ret.v = (ret.index >= p.Start /\ ret.index < p.End)
        /\ (ret.index = p.Start /\ p.Start < p.End) => ret.v
        /\ ret.index = p.End => ~ret.v
        /\ p.Start >= p.End => ~ret.v

C12_Witness ==
    /\ op = "Contains"
    /\ ret.index = p.Start
    /\ ret.v

(***************************************************************************)
(* Merge, checked under SpecMerge: the receiver and the variadic argument  *)
(* are drawn by InitMerge, and the one action is the call.                 *)
(***************************************************************************)
MergePeriods == {Period(s, e) : s \in 0..MaxMergeT, e \in 0..MaxMergeT}

ArgLists == UNION {[1..n -> MergePeriods] : n \in 0..MaxPeriods}

CallMerge ==
    /\ cal.pc = "idle"
    /\ op' = "Merge"
    /\ pre' = p
    /\ p' = Merge(p, periods)
    /\ ret' = [n |-> Len(periods)]
    /\ UNCHANGED <<file, StartWeek, q, periods, cal>>

InitMerge ==
    /\ file \in Files
    /\ StartWeek = 1
    /\ p \in MergePeriods
    /\ q = Period(0, 0)
    /\ periods \in ArgLists
    /\ op = "init"
    /\ pre = p
    /\ ret = [v |-> FALSE]
    /\ cal = Idle

NextMerge == CallMerge

SpecMerge == InitMerge /\ [][NextMerge]_vars

\* The sequence `all` in the order given by the permutation f of its indices.
Reordered(all, f) == [k \in DOMAIN all |-> all[f[k]]]

\* C5: after Merge(p, periods...) the receiver's start is the least start
\* and its end the greatest end over p and all the arguments, for any number
\* of arguments (none leaves p unchanged), whatever the order of the
\* arguments and whichever of the periods is the receiver; whether the
\* periods overlap or abut plays no part.
C5_MergeEnvelope ==
    op = "Merge" =>
        LET all == <<pre>> \o periods
        IN  /\ \A k \in DOMAIN all : p.Start <= all[k].Start /\ p.End >= all[k].End
            /\ \E k \in DOMAIN all : p.Start = all[k].Start
            /\ \E k \in DOMAIN all : p.End = all[k].End
            /\ periods = <<>> => p = pre
            /\ \A f \in Permutations(DOMAIN all) :
                   LET other == Reordered(all, f)
                   IN  Merge(Head(other), Tail(other)) = p

C5_Witness ==
    /\ op = "Merge"
    /\ Len(periods) = 2
    /\ p.Start = periods[2].Start /\ p.Start < pre.Start /\ p.Start < periods[1].Start
    /\ p.End = periods[1].End /\ p.End > pre.End /\ p.End > periods[2].End
    /\ ~Overlaps(pre, periods[1]) /\ ~Abuts(pre, periods[1]).found

(***************************************************************************)
(* Sequences of mutating calls, checked under SpecSeq.  A behaviour starts *)
(* from a period with start <= end and is any sequence of Next, Previous   *)
(* and Merge calls, each Merge with arguments of its own, closed by at     *)
(* most one call of one of the other mutators.                             *)
(***************************************************************************)
\* Merge with arguments drawn at the call; they are gone when it returns.
CallMergeWith == \E given \in ArgLists :
    /\ cal.pc = "idle"
    /\ op' = "Merge"
    /\ pre' = p
    /\ p' = Merge(p, given)
    /\ ret' = [n |-> Len(given)]
    /\ UNCHANGED <<file, StartWeek, q, periods, cal>>

InitSeq ==
    /\ file \in Files
    /\ StartWeek = 1
    /\ p \in {x \in Periods : x.Start <= x.End}
    /\ q = Period(0, 0)
    /\ periods = <<>>
    /\ op = "init"
    /\ pre = p
    /\ ret = [v |-> FALSE]
    /\ cal = Idle

InSequence == op \in {"init", "Next", "Previous", "Merge"}

NextSeq ==
    \/ InSequence /\ CallNext
    \/ InSequence /\ CallPrevious
    \/ InSequence /\ CallMergeWith
    \/ InSequence /\ CallWithDuration
    \/ InSequence /\ CallAdd
    \/ InSequence /\ CallSub
    \/ InSequence /\ CallStartingOn
    \/ InSequence /\ CallEndingOn

SpecSeq == InitSeq /\ [][NextSeq]_vars

\* What C13 says of the sequences of Next, Previous and Merge calls: the
\* receiver keeps start <= end, Next and Previous keep its duration and
\* Merge keeps or enlarges it.
SequenceKeepsOrder ==
    /\ InSequence => Ordered(p)
    /\ op \in {"Next", "Previous"} => p.End - p.Start = pre.End - pre.Start
    /\ op = "Merge" => p.End - p.Start >= pre.End - pre.Start

\* The three calls C13 names: Add or WithDuration with a negative duration,
\* Sub with a positive one.
EndMovedBack ==
    \/ op \in {"Add", "WithDuration"} /\ ret.duration < 0
    \/ op = "Sub" /\ ret.duration > 0

\* C13 as claimed: from a period with start <= end, any sequence of Next,
\* Previous and Merge calls leaves start <= end, Next and Previous keep the
\* duration and Merge keeps or enlarges it; a call that makes start > end is
\* an Add or WithDuration with a negative duration or a Sub with a positive
\* one, and Add, Sub and WithDuration leave start as it was.
C13_AsClaimed ==
    /\ SequenceKeepsOrder
    /\ (Ordered(pre) /\ ~Ordered(p)) => EndMovedBack
    /\ op \in {"Add", "Sub", "WithDuration"} => p.Start = pre.Start

\* C13 (amended): as claimed for src/unnamed/part_001; in src/period.go the
\* setters StartingOn and EndingOn can make start > end as well, StartingOn
\* by changing start and EndingOn by changing end.
C13_OrderPreserved ==
    /\ SequenceKeepsOrder
    /\ (Ordered(pre) /\ ~Ordered(p)) =>
           \/ EndMovedBack
           \/ /\ file = "period.go"
              /\ \/ op = "StartingOn" /\ ret.index > pre.End /\ p.End = pre.End
                 \/ op = "EndingOn" /\ ret.index < pre.Start /\ p.Start = pre.Start
    /\ op \in {"Add", "Sub", "WithDuration"} => p.Start = pre.Start
    /\ file = "part_001" => op \notin {"StartingOn", "EndingOn"}

C13_Witness ==
    /\ op = "StartingOn"
    /\ Ordered(pre)
    /\ pre.Start < pre.End
    /\ ~Ordered(p)

(***************************************************************************)
(* The calendar, as Go's package time computes it in UTC.  An instant is   *)
(* a midnight, counted in days since 1970-01-01.                           *)
(***************************************************************************)
Monday == 1

Weekdays == 0..6

IsLeap(year) == (year % 4 = 0 /\ year % 100 # 0) \/ year % 400 = 0

\* Leap years among the years 1 .. year-1.
LeapsBefore(year) ==
    ((year - 1) \div 4) - ((year - 1) \div 100) + ((year - 1) \div 400)

\* Days from 1970-01-01 to January 1 of `year`.
DaysBeforeYear(year) ==
    365 * (year - 1970) + LeapsBefore(year) - LeapsBefore(1970)

\* Days of a year before the first of `month` (1..12).
DaysBeforeMonth(year, month) ==
    <<0, 31, 59, 90, 120, 151, 181, 212, 243, 273, 304, 334>>[month]
        + (IF IsLeap(year) /\ month >= 3 THEN 1 ELSE 0)

\* time.Date(year, month, day, 0, 0, 0, 0, UTC): a month outside 1..12 is
\* carried into the year, a day outside the month runs into the
\* neighbouring months.
Date(year, month, day) ==
    LET y == year + ((month - 1) \div 12)
        m == ((month - 1) % 12) + 1
    IN  DaysBeforeYear(y) + DaysBeforeMonth(y, m) + day - 1

\* Time.Year
YearOf(t) ==
    LET a == 1970 + (t \div 365)
        b == 1970 + (t \div 366)
    IN  CHOOSE y \in (Min(a, b) - 1)..(Max(a, b) + 1) :
            DaysBeforeYear(y) <= t /\ t < DaysBeforeYear(y + 1)

\* The month of the day `yday` (from 0) of `year`.
MonthIn(year, yday) ==
    CHOOSE m \in 1..12 :
        /\ DaysBeforeMonth(year, m) <= yday
        /\ m = 12 \/ yday < DaysBeforeMonth(year, m + 1)

CivilIn(year, month, yday) ==
    [year |-> year, month |-> month,
     day |-> yday - DaysBeforeMonth(year, month) + 1]

CivilOf(year, yday) == CivilIn(year, MonthIn(year, yday), yday)

\* Time.Date: the year, month and day of t.
Civil(t) == CivilOf(YearOf(t), t - DaysBeforeYear(YearOf(t)))

\* Time.Weekday: 0 = Sunday; 1970-01-01 was a Thursday.
Weekday(t) == (t + 4) % 7

ISOWeekIn(year, thursday) ==
    [year |-> year, week |-> ((thursday - DaysBeforeYear(year)) \div 7) + 1]

\* Time.ISOWeek: the year and the week of the Thursday of t's week.
ISOWeek(t) ==
    LET d == IF Weekday(t) = 0 THEN -3 ELSE 4 - Weekday(t)
    IN  ISOWeekIn(YearOf(t + d), t + d)

\* The days the week search can visit: Civil and ISOWeek are tabulated
\* over them once, and computed afresh for any other day.
CalDays == Date(FirstYear - 1, 11, 1)..Date(FirstYear + NumYears + 7, 1, 31)

CivilTable == [t \in CalDays |-> Civil(t)]

ISOWeekTable == [t \in CalDays |-> ISOWeek(t)]

CivilAt(t) == IF t \in CalDays THEN CivilTable[t] ELSE Civil(t)

ISOWeekAt(t) == IF t \in CalDays THEN ISOWeekTable[t] ELSE ISOWeek(t)

AddCivil(c, years, months, days) ==
    Date(c.year + years, c.month + months, c.day + days)

\* Time.AddDate
AddDate(t, years, months, days) == AddCivil(CivilAt(t), years, months, days)

\* The number of characters of fmt.Sprintf("%d", n), n >= 0.
RECURSIVE DecimalLen(_)
DecimalLen(n) == IF n < 10 THEN 1 ELSE 1 + DecimalLen(n \div 10)

\* time.Parse(YMDHIS, fmt.Sprintf("%d-%02d-01 00:00:00", year, month)): the
\* layout's year takes exactly four digits.
ParseFirstOfMonth(year, month) ==
    IF year >= 0 /\ DecimalLen(year) = 4 /\ month \in 1..12
    THEN [t |-> Date(year, month, 1), err |-> "nil"]
    ELSE [t |-> ZeroTime, err |-> "ParseError"]

(***************************************************************************)
(* Calendar constructors.                                                  *)
(***************************************************************************)
\* validateRange without the upper bound.
validateRange_NoMax(value, min, max) ==
    IF value < min
    THEN [value |-> value, err |-> "OutOfRangeError"]
    ELSE [value |-> value, err |-> "nil"]

validateRange(value, min, max) ==
    IF value < min \/ value > max
    THEN [value |-> value, err |-> "OutOfRangeError"]
    ELSE [value |-> value, err |-> "nil"]

CreateFromDay(year, month, day) ==
    IF validateRange(month, 1, 12).err # "nil"
    THEN [p |-> ZeroPeriod, err |-> validateRange(month, 1, 12).err]
    ELSE IF validateRange(day, 1, 31).err # "nil"
    THEN [p |-> ZeroPeriod, err |-> validateRange(day, 1, 31).err]
    ELSE LET start == Date(year, month, day)
         IN  [p |-> Period(start, AddDate(start, 0, 0, 1)), err |-> "nil"]

\* A parsed first of a month and the period that starts there: period.go
\* drops the parser's error, part_001 returns it with the period as it is.
FromParsed(parsed, years, months) ==
    IF file = "part_001" /\ parsed.err # "nil"
    THEN [p |-> Period(parsed.t, ZeroTime), err |-> parsed.err]
    ELSE [p |-> Period(parsed.t, AddDate(parsed.t, years, months, 0)),
          err |-> "nil"]

CreateFromMonth(year, month) ==
    IF validateRange(month, 1, 12).err # "nil"
    THEN [p |-> ZeroPeriod, err |-> validateRange(month, 1, 12).err]
    ELSE FromParsed(ParseFirstOfMonth(year, month), 0, 1)

CreateFromQuarter(year, quarter) ==
    IF validateRange(quarter, 1, 4).err # "nil"
    THEN [p |-> ZeroPeriod, err |-> validateRange(quarter, 1, 4).err]
    ELSE FromParsed(ParseFirstOfMonth(year, ((quarter - 1) * 3) + 1), 0, 3)

CreateFromSemester(year, semester) ==
    IF validateRange(semester, 1, 2).err # "nil"
    THEN [p |-> ZeroPeriod, err |-> validateRange(semester, 1, 2).err]
    ELSE FromParsed(ParseFirstOfMonth(year, ((semester - 1) * 6) + 1), 0, 6)

CreateFromYear(year) == FromParsed(ParseFirstOfMonth(year, 1), 1, 0)

(***************************************************************************)
(* The calendar calls, under SpecCal.  CreateFromWeek runs one turn of one *)
(* of its four loops per step; `cal` is its frame (p.Start, isoYear,       *)
(* isoWeek and the loop it is in).  The other constructors have no loop    *)
(* and are one step each.  An index is drawn from its bound and from one   *)
(* below and one above it.  A constructor reads nothing an earlier call    *)
(* left behind, so a behaviour is one call, made from the initial state.   *)
(***************************************************************************)
Years == FirstYear..(FirstYear + NumYears - 1)

\* A call can be made: no call is running and none was made.
CanCall == cal.pc = "idle" /\ op = "init"

\* A constructor returns `result` for the index (or month and day) given.
Construct(name, year, idx, day, result) ==
    /\ op' = name
    /\ ret' = [year |-> year, idx |-> idx, day |-> day,
               p |-> result.p, err |-> result.err]
    /\ UNCHANGED <<file, StartWeek, p, q, periods, pre, cal>>

CallCreateFromDay ==
    /\ CanCall
    /\ file = "part_001"
    /\ \E year \in Years, month \in 0..13, day \in 0..32 :
           Construct("CreateFromDay", year, month, day,
                     CreateFromDay(year, month, day))

CallCreateFromMonth ==
    /\ CanCall
    /\ \E year \in Years, month \in 0..13 :
           Construct("CreateFromMonth", year, month, 1,
                     CreateFromMonth(year, month))

CallCreateFromQuarter ==
    /\ CanCall
    /\ \E year \in Years, quarter \in 0..5 :
           Construct("CreateFromQuarter", year, quarter, 1,
                     CreateFromQuarter(year, quarter))

CallCreateFromSemester ==
    /\ CanCall
    /\ \E year \in Years, semester \in 0..3 :
           Construct("CreateFromSemester", year, semester, 1,
                     CreateFromSemester(year, semester))

CallCreateFromYear ==
    /\ CanCall
    /\ \E year \in Years :
           Construct("CreateFromYear", year, 1, 1, CreateFromYear(year))

MovedTo(t, iso) ==
    [cal EXCEPT !.Start = t, !.isoYear = iso.year, !.isoWeek = iso.week]

\* The frame with p.Start moved to t, and isoYear, isoWeek read again.
Moved(t) == MovedTo(t, ISOWeekAt(t))

\* CreateFromWeek up to its first loop: the range check and the seed date.
CallCreateFromWeek == CanCall /\ \E year \in Years, week \in 0..54 :
    /\ IF validateRange(week, 1, 53).err # "nil"
       THEN /\ op' = "CreateFromWeek"
            /\ ret' = [year |-> year, idx |-> week, day |-> 1, p |-> ZeroPeriod,
                       err |-> validateRange(week, 1, 53).err]
            /\ cal' = cal
       ELSE /\ op' = "CreateFromWeek running"
            /\ ret' = [year |-> year, idx |-> week]
            /\ cal' = [pc |-> "toMonday", year |-> year, week |-> week,
                       Start |-> Date(year, 0, 0),
                       isoYear |-> ISOWeekAt(Date(year, 0, 0)).year,
                       isoWeek |-> ISOWeekAt(Date(year, 0, 0)).week]
    /\ UNCHANGED <<file, StartWeek, p, q, periods, pre>>

\* for p.Start.Weekday() != time.Monday
WeekToMonday ==
    /\ cal.pc = "toMonday"
    /\ cal' = IF Weekday(cal.Start) # Monday
              THEN Moved(AddDate(cal.Start, 0, 0, -1))
              ELSE [cal EXCEPT !.pc = "toYear"]
    /\ UNCHANGED <<file, StartWeek, p, q, periods, op, pre, ret>>

\* for isoYear < year
WeekToYear ==
    /\ cal.pc = "toYear"
    /\ cal' = IF cal.isoYear < cal.year
              THEN Moved(AddDate(cal.Start, 0, 0, 1))
              ELSE [cal EXCEPT !.pc = "toWeek"]
    /\ UNCHANGED <<file, StartWeek, p, q, periods, op, pre, ret>>

\* for isoWeek < week
WeekToWeek ==
    /\ cal.pc = "toWeek"
    /\ cal' = IF cal.isoWeek < cal.week
              THEN Moved(AddDate(cal.Start, 0, 0, 1))
              ELSE [cal EXCEPT !.pc = "toStartWeek"]
    /\ UNCHANGED <<file, StartWeek, p, q, periods, op, pre, ret>>

\* for p.Start.Weekday() != StartWeek, then p.End and the return
WeekToStartWeek ==
    /\ cal.pc = "toStartWeek"
    /\ IF Weekday(cal.Start) # StartWeek
       THEN /\ cal' = Moved(AddDate(cal.Start, 0, 0, StartWeek - Monday))
            /\ UNCHANGED <<op, ret>>
       ELSE /\ op' = "CreateFromWeek"
            /\ ret' = [year |-> cal.year, idx |-> cal.week, day |-> 1,
                       p |-> Period(cal.Start, AddDate(cal.Start, 0, 0, 7)),
                       err |-> "nil"]
            /\ cal' = Idle
    /\ UNCHANGED <<file, StartWeek, p, q, periods, pre>>

InitCal ==
    /\ file \in Files
    /\ StartWeek \in Weekdays
    /\ p = ZeroPeriod
    /\ q = ZeroPeriod
    /\ periods = <<>>
    /\ op = "init"
    /\ pre = p
    /\ ret = [v |-> FALSE]
    /\ cal = Idle

NextCal ==
    \/ CallCreateFromDay
    \/ CallCreateFromMonth
    \/ CallCreateFromQuarter
    \/ CallCreateFromSemester
    \/ CallCreateFromYear
    \/ CallCreateFromWeek
    \/ WeekToMonday
    \/ WeekToYear
    \/ WeekToWeek
    \/ WeekToStartWeek

SpecCal == InitCal /\ [][NextCal]_vars

(***************************************************************************)
(* Properties of the calendar constructors, checked under SpecCal.         *)
(***************************************************************************)
IndexBound(name) ==
    CASE name = "CreateFromWeek" -> 1..53
      [] name = "CreateFromMonth" -> 1..12
      [] name = "CreateFromQuarter" -> 1..4
      [] name = "CreateFromSemester" -> 1..2

C8_AsClaimed ==
    (op = "CreateFromWeek" /\ ret.idx \in 1..53) =>
        /\ ret.err = "nil"
        /\ Weekday(ret.p.Start) = StartWeek
        /\ ISOWeek(ret.p.Start) = [year |-> ret.year, week |-> ret.idx]
        /\ ret.p.End = ret.p.Start + 7
        /\ (StartWeek = Monday /\ ret.year = 2015 /\ ret.idx = 1)
               => ret.p.Start = Date(2014, 12, 29)

=============================================================================
